---- MODULE Spec2Model ----
(***************************************************************************)
(* A model of the single-threaded recursive apply engine of the simple BDD *)
(* rules of oxidd (crates/oxidd-rules-bdd/src/simple/apply_rec_st.rs).     *)
(*                                                                         *)
(* Edges are integers: 0 is the terminal False, 1 the terminal True, and   *)
(* i + 1 refers to the inner node stored at index i of the node store.     *)
(* A manager is a record                                                   *)
(*   nodes    the node store: a sequence of <<level, then, else>>          *)
(*   cache    the apply cache: a function from keys to result edges        *)
(*   refs     per edge, the number of owned edge handles outstanding       *)
(*            (handles of the user and of the engine; the child edges a    *)
(*            stored node owns belong to the store and are not counted)    *)
(*   levels   the number of levels (variables)                             *)
(*   cap      the capacity of the node store (inner nodes)                 *)
(*   cacheOn  FALSE makes every probe of the apply cache miss              *)
(*   ordViol  set once reduce is handed a child that is not strictly below *)
(*            the level of the node to create                              *)
(*   direct   the number of nodes interned without going through reduce    *)
(*   hits     the number of probes of the apply cache that hit             *)
(*   made     the number of nodes that reduce has inserted into the store  *)
(*   probes   the number of probes of the apply cache made by restrict     *)
(*   depth    the number of calls of the engine's recursive functions that  *)
(*            are open below the user's call, maxDepth its maximum          *)
(*   descViol set when a function calls itself on an inner operand that     *)
(*            does not lie below its pivot level                            *)
(*   overrun  set when a chain of open calls is cut off at ChainBound       *)
(* Every engine operation maps a manager and operands to a record          *)
(* [m |-> manager afterwards, res |-> owned result edge or OOM].           *)
(***************************************************************************)
EXTENDS Integers, Sequences, FiniteSets, TLC

VARIABLES nodes, cache, refs, numLevels, held, calls, last, ordViol, memo,
          reduced

vars ==
  <<nodes, cache, refs, numLevels, held, calls, last, ordViol, memo, reduced>>

\* ---------------------------------------------------------------- bounds
MaxLevels == 3
NodeCapacity == 7
CacheCapacity == 3
MaxCalls == 2
MaxPairs == 2

\* ------------------------------------------------------ terminals, edges
F == 0
T == 1
OOM == 0 - 1
NoEntry == 0 - 2

IsInner(e) == e >= 2
IsTerminal(e) == e = F \/ e = T

Edges(m) == 0..(Len(m.nodes) + 1)

\* Manager::get_node for an inner edge
get_node(m, e) == m.nodes[e - 1]

level(m, e) == get_node(m, e)[1]

child(m, e, i) == get_node(m, e)[i + 2]

collect_children(m, e) == <<child(m, e, 0), child(m, e, 1)>>

clone_edge(m, e) == [m EXCEPT !.refs[e] = @ + 1]

drop_edge(m, e) == [m EXCEPT !.refs[e] = @ - 1]

\* Manager::get_terminal: an owned edge to the terminal singleton
get_terminal(m, t) == [m |-> clone_edge(m, t), res |-> t]

Ok(m, e) == [m |-> m, res |-> e]

Err(m) == [m |-> m, res |-> OOM]

\* ------------------------------------------------------------ node store
\* LevelView::get_or_insert: look the triple up, else allocate a node. The
\* node takes over the two child handles; on failure they are released.
get_or_insert(m, lvl, t, e) ==
  LET found == {i \in 1..Len(m.nodes) : m.nodes[i] = <<lvl, t, e>>}
      m1 == drop_edge(drop_edge(m, t), e)
  IN  IF found # {}
      THEN LET n == (CHOOSE i \in found : TRUE) + 1
           IN  Ok(clone_edge(m1, n), n)
      ELSE IF Len(m.nodes) >= m.cap
      THEN Err(m1)
      ELSE LET n == Len(m.nodes) + 2
           IN  Ok([m1 EXCEPT !.nodes = Append(@, <<lvl, t, e>>),
                             !.refs[n] = 1], n)

Below(m, lvl, e) == IsTerminal(e) \/ level(m, e) > lvl

reduce(m, lvl, t, e) ==
  LET m0 == IF Below(m, lvl, t) /\ Below(m, lvl, e)
            THEN m ELSE [m EXCEPT !.ordViol = TRUE]
  IN  IF t = e
      THEN Ok(drop_edge(m0, e), t)
      ELSE LET r == get_or_insert(m0, lvl, t, e)
           IN  [r EXCEPT !.m.made = @ + Len(r.m.nodes) - Len(m.nodes)]

\* ----------------------------------------------------------- apply cache
Key(op, operands, numeric) == <<op, operands, numeric>>

cache_get(m, key) ==
  IF m.cacheOn /\ key \in DOMAIN m.cache THEN m.cache[key] ELSE NoEntry

\* On a hit the probe hands out an owned edge.
cache_hit(m, h) == Ok(clone_edge([m EXCEPT !.hits = @ + 1], h), h)

\* An installation into a full cache is silently dropped.
cache_add(m, key, h) ==
  IF ~m.cacheOn THEN m
  ELSE IF key \in DOMAIN m.cache THEN [m EXCEPT !.cache[key] = h]
  ELSE IF Cardinality(DOMAIN m.cache) >= CacheCapacity THEN m
  ELSE [m EXCEPT !.cache = (key :> h) @@ @]

\* ------------------------------------------------------------- sequencing
\* The outcome r of a step is handed to the rest K of the function.
Bind(r, K(_)) == K(r)

\* `?`: a failed step returns early, with nothing owned to release.
Try(r, K(_)) == IF r.res = OOM THEN r ELSE K(r)

\* `?` under an EdgeDropGuard holding t: the early return releases t.
Guarded(t, r, K(_)) == IF r.res = OOM THEN Err(drop_edge(r.m, t)) ELSE K(r)

\* ---------------------------------------------------------- the call chain
\* The operands of a recursive call lie below the caller's pivot level
Descends(m, lvl, ops) ==
  \A i \in DOMAIN ops : IsInner(ops[i]) => level(m, ops[i]) > lvl

\* The longest chain of open calls on L levels: substitute calls itself on
\* the children of f and then apply_ite, which calls itself on cofactors or
\* hands over to apply_bin, which calls itself on cofactors or hands over to
\* apply_not; a function is open at most once per level, and once more on
\* operands that it settles without a pivot.
ChainBound(L) == 4 * L + 3

\* A call of one of the recursive functions from within another call: one
\* more open call while it runs
Enter(m, K(_)) ==
  IF m.depth + 2 > ChainBound(m.levels) THEN Err([m EXCEPT !.overrun = TRUE])
  ELSE Bind(K([m EXCEPT !.depth = @ + 1,
                        !.maxDepth = IF @ > m.depth THEN @ ELSE m.depth + 1]),
            LAMBDA r : [r EXCEPT !.m.depth = m.depth])

\* A call of a function by itself, from the frame with the pivot level lvl
Recurse(m, lvl, ops, K(_)) ==
  Enter([m EXCEPT !.descViol = @ \/ ~Descends(m, lvl, ops)], K)

\* The node interned through the level view, without reduce
intern_and_add(m, lvl, t, e, key) ==
  Try(get_or_insert(m, lvl, t, e), LAMBDA h :
  Ok(cache_add(h.m, key, h.res), h.res))

\* The last steps of a recursive apply: reduce, which takes over t and e,
\* then the installation of the result in the apply cache.
reduce_and_add(m, lvl, t, e, key) ==
  Try(reduce(m, lvl, t, e), LAMBDA h : Ok(cache_add(h.m, key, h.res), h.res))

\* --------------------------------------------------------------- apply_not
RECURSIVE apply_not(_, _)
apply_not(m, f) ==
  IF ~IsInner(f) THEN get_terminal(m, 1 - f)
  ELSE
  LET key == Key("Not", <<f>>, <<>>)
      hit == cache_get(m, key)
  IN  IF hit # NoEntry THEN cache_hit(m, hit)
      ELSE
      Try(Recurse(m, level(m, f), <<child(m, f, 0)>>,
                  LAMBDA n : apply_not(n, child(m, f, 0))), LAMBDA t :
      Guarded(t.res, Recurse(t.m, level(m, f), <<child(m, f, 1)>>,
                             LAMBDA n : apply_not(n, child(m, f, 1))), LAMBDA e :
      reduce_and_add(e.m, level(m, f), t.res, e.res, key)))

\* ------------------------------------------------------------- operators
BinOps == {"And", "Or", "Nand", "Nor", "Xor", "Equiv", "Imp", "ImpStrict"}

Commutative == {"And", "Or", "Nand", "Nor", "Xor", "Equiv"}

\* The Boolean operator of a tag, on the terminal values 0 and 1
Op2(OP, a, b) ==
  CASE OP = "And" -> IF a = 1 /\ b = 1 THEN 1 ELSE 0
    [] OP = "Or" -> IF a = 1 \/ b = 1 THEN 1 ELSE 0
    [] OP = "Nand" -> IF a = 1 /\ b = 1 THEN 0 ELSE 1
    [] OP = "Nor" -> IF a = 1 \/ b = 1 THEN 0 ELSE 1
    [] OP = "Xor" -> IF a # b THEN 1 ELSE 0
    [] OP = "Equiv" -> IF a = b THEN 1 ELSE 0
    [] OP = "Imp" -> IF a = 1 /\ b = 0 THEN 0 ELSE 1
    [] OP = "ImpStrict" -> IF a = 0 /\ b = 1 THEN 1 ELSE 0

\* Operation::Done(h), Operation::Not(f), Operation::Binary(o, op1, op2);
\* Done carries the edge to return: a terminal (get_terminal) or a clone.
Done(e) == [kind |-> "Done", op |-> "", a |-> e, b |-> 0]

NotOf(f) == [kind |-> "Not", op |-> "", a |-> f, b |-> 0]

Binary(OP, a, b) == [kind |-> "Binary", op |-> OP, a |-> a, b |-> b]

\* The unary function x |-> lo (x = 0), hi (x = 1) applied to the edge x
Unary(lo, hi, x) ==
  IF lo = hi THEN Done(lo)
  ELSE IF lo = 0 THEN Done(x)
  ELSE NotOf(x)

\* terminal_bin: the terminal table of a binary operator. The operands of a
\* commutative operator are ordered by identity.
terminal_bin(OP, f, g) ==
  IF f = g THEN Unary(Op2(OP, 0, 0), Op2(OP, 1, 1), f)
  ELSE IF IsInner(f) /\ IsInner(g)
  THEN IF OP \in Commutative /\ f > g THEN Binary(OP, g, f)
       ELSE Binary(OP, f, g)
  ELSE IF IsTerminal(f) THEN Unary(Op2(OP, f, 0), Op2(OP, f, 1), g)
  ELSE Unary(Op2(OP, 0, g), Op2(OP, 1, g), f)

\* An operand as both of its own cofactors
cofactors_same(m, f, lvl) == <<f, f>>

\* Cofactors of an operand with respect to the pivot level (lines 120-129)
Cofactors(m, f, lvl) ==
  IF IsInner(f) /\ level(m, f) = lvl THEN collect_children(m, f) ELSE <<f, f>>

Min(a, b) == IF a <= b THEN a ELSE b

\* The pivot of apply_bin (lines 113-117)
bin_level(m, f, g) == Min(level(m, f), level(m, g))

\* A key that leaves the operator out
bin_key_any(o) == Key("", <<o.a, o.b>>, <<>>)

\* The key of apply_bin's cache entry (lines 105-107 and 136-138)
bin_key(o) == Key(o.op, <<o.a, o.b>>, <<>>)

\* --------------------------------------------------------------- apply_bin
RECURSIVE apply_bin(_, _, _, _)
apply_bin(m, OP, f, g) ==
  LET o == terminal_bin(OP, f, g)
      key == bin_key(o)
      hit == cache_get(m, key)
      lvl == bin_level(m, f, g)
      fc == Cofactors(m, f, lvl)
      gc == Cofactors(m, g, lvl)
  IN  IF o.kind = "Not" THEN Enter(m, LAMBDA n : apply_not(n, o.a))
      ELSE IF o.kind = "Done" THEN Ok(clone_edge(m, o.a), o.a)
      ELSE IF hit # NoEntry THEN cache_hit(m, hit)
      ELSE
      Try(Recurse(m, lvl, <<fc[1], gc[1]>>,
                  LAMBDA n : apply_bin(n, OP, fc[1], gc[1])), LAMBDA t :
      Guarded(t.res, Recurse(t.m, lvl, <<fc[2], gc[2]>>,
                             LAMBDA n : apply_bin(n, OP, fc[2], gc[2])), LAMBDA e :
      reduce_and_add(e.m, lvl, t.res, e.res, key)))

\* --------------------------------------------------------------- apply_ite
\* f => h in the place of ~f /\ h
ite_g_terminal_imp(f, g, h) ==
  IF g = T THEN Binary("Or", f, h) ELSE Binary("Imp", f, h)

\* The case of a terminal g and an inner h (lines 175-180): f \/ h for a true
\* g, ~f /\ h for a false one
ite_g_terminal(f, g, h) ==
  IF g = T THEN Binary("Or", f, h) ELSE Binary("ImpStrict", f, h)

\* f /\ g and f => g exchanged
ite_h_terminal_swapped(f, g, h) ==
  IF h = T THEN Binary("And", f, g) ELSE Binary("Imp", f, g)

\* The case of an inner g and a terminal h (lines 181-186): f => g for a
\* true h, f /\ g for a false one
ite_h_terminal(f, g, h) ==
  IF h = T THEN Binary("Imp", f, g) ELSE Binary("And", f, g)

\* The terminal cases of apply_ite (lines 157-194), as the operation that
\* settles the call; "Ite" when none applies, i.e. when f, g and h are inner
\* and pairwise distinct.
ite_terminal(f, g, h) ==
  IF g = h THEN Done(g)
  ELSE IF f = g THEN Binary("Or", f, h)
  ELSE IF f = h THEN Binary("And", f, g)
  ELSE IF IsTerminal(f) THEN (IF f = T THEN Done(g) ELSE Done(h))
  ELSE IF IsTerminal(g) /\ IsInner(h) THEN ite_g_terminal(f, g, h)
  ELSE IF IsInner(g) /\ IsTerminal(h) THEN ite_h_terminal(f, g, h)
  ELSE IF IsTerminal(g) /\ IsTerminal(h)
  THEN (IF g = F THEN NotOf(f) ELSE Done(f))
  ELSE [kind |-> "Ite", op |-> "Ite", a |-> f, b |-> g]

Max(a, b) == IF a >= b THEN a ELSE b

\* The lowest of the three top levels as the pivot
ite_level_max(m, f, g, h) == Max(Max(level(m, f), level(m, g)), level(m, h))

\* The pivot of apply_ite (lines 208-211)
ite_level(m, f, g, h) == Min(Min(level(m, f), level(m, g)), level(m, h))

RECURSIVE apply_ite(_, _, _, _)
apply_ite(m, f, g, h) ==
  LET s == ite_terminal(f, g, h)
      key == Key("Ite", <<f, g, h>>, <<>>)
      hit == cache_get(m, key)
      lvl == ite_level(m, f, g, h)
      fc == Cofactors(m, f, lvl)
      gc == Cofactors(m, g, lvl)
      hc == Cofactors(m, h, lvl)
  IN  IF s.kind = "Done" THEN Ok(clone_edge(m, s.a), s.a)
      ELSE IF s.kind = "Binary"
      THEN Enter(m, LAMBDA n : apply_bin(n, s.op, s.a, s.b))
      ELSE IF s.kind = "Not" THEN Enter(m, LAMBDA n : apply_not(n, s.a))
      ELSE IF hit # NoEntry THEN cache_hit(m, hit)
      ELSE
      Try(Recurse(m, lvl, <<fc[1], gc[1], hc[1]>>,
                  LAMBDA n : apply_ite(n, fc[1], gc[1], hc[1])), LAMBDA t :
      Guarded(t.res, Recurse(t.m, lvl, <<fc[2], gc[2], hc[2]>>,
                             LAMBDA n : apply_ite(n, fc[2], gc[2], hc[2])),
              LAMBDA e :
      reduce_and_add(e.m, lvl, t.res, e.res, key)))

\* ------------------------------------------------------------ substitution
\* super::var_level: the level of the node a variable edge refers to
var_level(m, v) == level(m, v)

None == 0 - 3

\* The first loop of substitute_prepare (lines 257-270): the level-indexed
\* array of replacements; dup is set when a level occurs a second time (the
\* debug assertion), and the later pair then overrides the earlier one.
RECURSIVE subst_array(_, _, _)
subst_array(m, pairs, acc) ==
  IF pairs = <<>> THEN acc
  ELSE
  LET lvl == var_level(m, pairs[1][1])
      arr == IF lvl >= Len(acc.arr)
             THEN acc.arr \o [i \in 1..(lvl + 1 - Len(acc.arr)) |-> None]
             ELSE acc.arr
  IN  subst_array(m, Tail(pairs),
                  [arr |-> [arr EXCEPT ![lvl + 1] = pairs[1][2]],
                   dup |-> acc.dup \/ arr[lvl + 1] # None])

\* EdgeVecDropGuard: release every edge of the vector
RECURSIVE drop_edges(_, _)
drop_edges(m, es) ==
  IF es = <<>> THEN m ELSE drop_edges(drop_edge(m, es[1]), Tail(es))

\* A node of the variable of a level, stored without a lookup
var_node_fresh(m, lvl) ==
  IF Len(m.nodes) >= m.cap THEN Err(m)
  ELSE Ok([m EXCEPT !.nodes = Append(@, <<lvl, T, F>>),
                    !.refs[Len(m.nodes) + 2] = 1,
                    !.direct = @ + 1], Len(m.nodes) + 2)

\* The node of the variable of a level, interned directly (lines 279-286)
var_node(m, lvl) ==
  Try(get_or_insert(clone_edge(clone_edge(m, T), F), lvl, T, F), LAMBDA r :
  Ok([r.m EXCEPT !.direct = @ + 1], r.res))

\* True in the place of the variable of a level without a replacement
subst_entry_true(m, lvl, e) ==
  IF e # None THEN Ok(clone_edge(m, e), e) ELSE get_terminal(m, T)

\* One entry of the replacement vector (lines 276-287)
subst_entry(m, lvl, e) ==
  IF e # None THEN Ok(clone_edge(m, e), e) ELSE var_node(m, lvl)

\* The second loop of substitute_prepare (lines 272-290); res is the vector
\* of owned edges; ok is FALSE when an allocation failed, after the vector
\* built so far has been released.
RECURSIVE subst_fill(_, _, _)
subst_fill(m, arr, res) ==
  IF Len(res) = Len(arr)
  THEN [m |-> m, res |-> res, ok |-> TRUE, panic |-> FALSE]
  ELSE
  Bind(subst_entry(m, Len(res), arr[Len(res) + 1]), LAMBDA r :
  IF r.res = OOM
  THEN [m |-> drop_edges(r.m, res), res |-> <<>>, ok |-> FALSE,
        panic |-> FALSE]
  ELSE subst_fill(r.m, arr, Append(res, r.res)))

\* debug_assert!(subst[level].is_none(), ..) (lines 263-268): the assertion
\* is compiled in, and panics on a level that occurs a second time, only in
\* a build with debug assertions; the first loop owns no edge yet.
subst_assert(m, s, debug_assertions) ==
  IF debug_assertions /\ s.dup
  THEN [m |-> m, res |-> <<>>, ok |-> FALSE, panic |-> TRUE]
  ELSE subst_fill(m, s.arr, <<>>)

\* substitute_prepare (lines 248-291) in a build with or without debug
\* assertions
substitute_prepare(m, pairs, debug_assertions) ==
  subst_assert(m, subst_array(m, pairs, [arr |-> <<>>, dup |-> FALSE]),
               debug_assertions)

\* The sub-results t and e kept after apply_ite has returned
substitute_combine_leak(m, r, t, e) == r

\* Lines 326-344 of substitute, after the second recursion: the guards of t
\* and e release them once apply_ite has returned, whatever it returned.
substitute_combine(m, r, t, e) == [m |-> drop_edge(drop_edge(r.m, t), e), res |-> r.res]

\* A key without the id of the substitution
subst_key_unsalted(f, cache_id) == Key("Substitute", <<f>>, <<>>)

\* The key of substitute's cache entry (lines 315-320 and 336-342): the
\* operand and, as the numeric operand, the id of the substitution
subst_key(f, cache_id) == Key("Substitute", <<f>>, <<cache_id>>)

RECURSIVE substitute(_, _, _, _)
substitute(m, f, subst, cache_id) ==
  IF ~IsInner(f) THEN Ok(clone_edge(m, f), f)
  ELSE IF level(m, f) >= Len(subst) THEN Ok(clone_edge(m, f), f)
  ELSE
  LET key == subst_key(f, cache_id)
      hit == cache_get(m, key)
  IN  IF hit # NoEntry THEN cache_hit(m, hit)
      ELSE
      Try(Recurse(m, level(m, f), <<child(m, f, 0)>>,
                  LAMBDA n : substitute(n, child(m, f, 0), subst, cache_id)),
          LAMBDA t :
      Guarded(t.res,
              Recurse(t.m, level(m, f), <<child(m, f, 1)>>,
                      LAMBDA n : substitute(n, child(m, f, 1), subst, cache_id)),
              LAMBDA e :
      Try(substitute_combine(e.m,
            Enter(e.m, LAMBDA n :
                    apply_ite(n, subst[level(m, f) + 1], t.res, e.res)),
            t.res, e.res),
          LAMBDA r : Ok(cache_add(r.m, key, r.res), r.res))))

\* FunctionSubst::substitute_edge (lines 616-626); the vector of replacements
\* is released when the function returns. Without the vector, after a
\* failed allocation or a failed assertion, substitute is not called.
substitute_edge(m, f, pairs, id, debug_assertions) ==
  Bind(substitute_prepare(m, pairs, debug_assertions), LAMBDA p :
  IF ~p.ok THEN Err(p.m)
  ELSE Bind(substitute(p.m, f, p.res, id), LAMBDA r :
       [m |-> drop_edges(r.m, p.res), res |-> r.res]))

\* --------------------------------------------------------------- restrict
\* The results of restrict_inner, with the number of tail calls that led to
\* them and whether each of them went on with a cube of a lower top level
\* and with an f that is not higher
RDone(e) == [kind |-> "Done", f |-> e, vars |-> e, steps |-> 0, adv |-> TRUE]

RRec(f, vs) == [kind |-> "Rec", f |-> f, vars |-> vs, steps |-> 0, adv |-> TRUE]

\* A tail call of restrict_inner, from the operands f, vs to f2, vs2, with
\* the result r
TailCall(m, f, vs, f2, vs2, r) ==
  [r EXCEPT !.steps = @ + 1,
            !.adv = @ /\ level(m, vs2) > level(m, vs)
                      /\ level(m, f2) >= level(m, f)]

\* The selected cofactor of f, whatever remains of the cube
restrict_tail_done(m, f0, vs0, f, vs) == RDone(f)

\* The tail recursion of restrict_inner on the selected cofactor of f
\* (lines 437-441); the second argument is the remaining cube
RECURSIVE restrict_inner(_, _, _)
restrict_tail(m, f0, vs0, f, vs) ==
  IF IsInner(f)
  THEN TailCall(m, f0, vs0, f, vs, restrict_inner(m, f, vs))
  ELSE RDone(f)

\* restrict_inner (lines 363-442) on inner edges f and vs: Done with the
\* edge to clone, or Rec with the operands of the structural recursion
restrict_inner(m, f, vs) ==
  LET flevel == level(m, f)
      vlevel == level(m, vs)
      vt == child(m, vs, 0)
      ve == child(m, vs, 1)
  IN  IF vlevel > flevel THEN RRec(f, vs)
      ELSE IF vlevel < flevel
      THEN (IF IsInner(vt)
            THEN TailCall(m, f, vs, f, vt, restrict_inner(m, f, vt))
            ELSE IF vt = T THEN RDone(f)
            ELSE IF IsInner(ve)
            THEN TailCall(m, f, vs, f, ve, restrict_inner(m, f, ve))
            ELSE RDone(f))
      ELSE IF IsInner(vt) THEN restrict_tail(m, f, vs, child(m, f, 0), vt)
      ELSE IF vt = T THEN RDone(child(m, f, 0))
      ELSE IF IsInner(ve) THEN restrict_tail(m, f, vs, child(m, f, 1), ve)
      ELSE RDone(child(m, f, 1))

\* The key of restrict's cache entry (lines 467-471 and 488-490)
restrict_key(i) == Key("Restrict", <<i.f, i.vars>>, <<>>)

\* The selected cofactor, installed in the apply cache for f and vs
restrict_done_cached(m, f, vs, e) ==
  Ok(cache_add(clone_edge(m, e), Key("Restrict", <<f, vs>>, <<>>), e), e)

\* RestrictInnerResult::Done(res) => Ok(res) (line 461), res being the clone
\* that restrict_inner has made of the edge e (lines 393, 400, 423, 432, 440)
restrict_done(m, f, vs, e) == Ok(clone_edge(m, e), e)

\* The probe of the apply cache (lines 466-471), counted
restrict_probe(m) == [m EXCEPT !.probes = @ + 1]

\* The walk of restrict_inner that led to i: its tail calls went down the
\* level order, and no more of them were open than the manager has levels
restrict_walk(m, i) ==
  [m EXCEPT !.descViol = @ \/ ~i.adv, !.overrun = @ \/ i.steps >= m.levels]

RECURSIVE restrict(_, _, _)
restrict(m0, f, vs) ==
  IF ~(IsInner(f) /\ IsInner(vs)) THEN Ok(clone_edge(m0, f), f)
  ELSE
  LET i == restrict_inner(m0, f, vs)
      key == restrict_key(i)
      hit == cache_get(m0, key)
      m == restrict_probe(restrict_walk(m0, i))
  IN  IF i.kind = "Done" THEN restrict_done(restrict_walk(m0, i), f, vs, i.f)
      ELSE IF hit # NoEntry THEN cache_hit(m, hit)
      ELSE
      Try(Recurse(m, level(m, i.f), <<child(m, i.f, 0), i.vars>>,
                  LAMBDA n : restrict(n, child(m, i.f, 0), i.vars)), LAMBDA t :
      Guarded(t.res, Recurse(t.m, level(m, i.f), <<child(m, i.f, 1), i.vars>>,
                             LAMBDA n : restrict(n, child(m, i.f, 1), i.vars)),
              LAMBDA e :
      reduce_and_add(e.m, level(m, i.f), t.res, e.res, key)))

\* ---------------------------------------------------------- quantification
\* crate::set_pop: drop the variables of the set above the level `until`
RECURSIVE set_pop(_, _, _)
set_pop(m, set, until) ==
  IF ~IsInner(set) THEN set
  ELSE IF level(m, set) >= until THEN set
  ELSE set_pop(m, child(m, set, 0), until)

\* The operator tag of a quantifier (lines 511-516)
quant_operator(Q) ==
  CASE Q = "And" -> "Forall" [] Q = "Or" -> "Exist" [] Q = "Xor" -> "Unique"

\* The variable set after the pops of lines 533-543
quant_vars(m, operator, vs, flevel) ==
  IF operator # "Unique" THEN set_pop(m, vs, flevel) ELSE vs

\* reduce also when the variable of f's top level is quantified
quant_combine_reduce(m, Q, flevel, vlevel, t, e) == reduce(m, flevel, t, e)

\* Lines 575-579 of quant: combine the owned sub-results t and e: by the
\* quantifier's operator on borrows of them, after which their guards release
\* them, or by reduce, which takes them over.
quant_combine(m, Q, flevel, vlevel, t, e) ==
  IF flevel = vlevel
  THEN Bind(Enter(m, LAMBDA n : apply_bin(n, Q, t, e)), LAMBDA r :
       [m |-> drop_edge(drop_edge(r.m, t), e), res |-> r.res])
  ELSE reduce(m, flevel, t, e)

\* The variable set handed to the recursive calls (lines 567-571)
quant_vt(m, vs, flevel, vlevel) ==
  IF vlevel = flevel THEN child(m, vs, 0) ELSE vs

\* A terminal f as its own quantification, for every quantifier
quant_terminal_clone(m, operator, f, vs) == Ok(clone_edge(m, f), f)

\* The terminal case of quant (lines 520-530): a terminal f is its own
\* quantification, except that the unique quantification of a terminal over
\* a non-empty set of variables is False.
quant_terminal(m, operator, f, vs) ==
  IF operator # "Unique" \/ IsTerminal(vs) THEN Ok(clone_edge(m, f), f)
  ELSE get_terminal(m, F)

RECURSIVE quant(_, _, _, _)
quant(m, Q, f, vs0) ==
  LET operator == quant_operator(Q)
      flevel == level(m, f)
      vs == quant_vars(m, operator, vs0, flevel)
      vlevel == level(m, vs)
      key == Key(operator, <<f, vs>>, <<>>)
      hit == cache_get(m, key)
      vt == quant_vt(m, vs, flevel, vlevel)
  IN  IF ~IsInner(f) THEN quant_terminal(m, operator, f, vs0)
      ELSE IF ~IsInner(vs) THEN Ok(clone_edge(m, f), f)
      ELSE IF operator = "Unique" /\ vlevel < flevel THEN get_terminal(m, F)
      ELSE IF hit # NoEntry THEN cache_hit(m, hit)
      ELSE
      Try(Recurse(m, flevel, <<child(m, f, 0), vt>>,
                  LAMBDA n : quant(n, Q, child(m, f, 0), vt)), LAMBDA t :
      Guarded(t.res, Recurse(t.m, flevel, <<child(m, f, 1), vt>>,
                             LAMBDA n : quant(n, Q, child(m, f, 1), vt)),
              LAMBDA e :
      Try(quant_combine(e.m, Q, flevel, vlevel, t.res, e.res), LAMBDA r :
      Ok(cache_add(r.m, key, r.res), r.res))))

\* ------------------------------------------------------------- evaluation
Assignments(m) == [0..(m.levels - 1) -> BOOLEAN]

\* eval_edge's inner walk (lines 857-869): the then-child is child 0
RECURSIVE eval(_, _, _)
eval(m, e, a) ==
  IF IsInner(e) THEN eval(m, child(m, e, IF a[level(m, e)] THEN 0 ELSE 1), a)
  ELSE e = T

\* ------------------------------------------------------ satisfaction count
\* SatCountCache: the memo of sat_count_edge, supplied by the caller: the
\* number of variables its entries were computed for and the map from node
\* ids to counts; hits counts the probes of the map that were answered.
NoMemo == [vars |-> None, map |-> <<>>, hits |-> 0, queries |-> 0]

\* SatCountCache::clear_if_invalid: the entries are dropped when they were
\* computed for another number of variables.
clear_if_invalid(c, nvars) ==
  IF c.vars = nvars THEN [c EXCEPT !.hits = 0]
  ELSE [c EXCEPT !.vars = nvars, !.map = <<>>, !.hits = 0]

\* The numbers N of the count are the naturals; <<= and >>= on them
shl(n, k) == n * 2^k

shr(n, k) == n \div 2^k

\* The count of True with the left shift left out
sat_terminal_val_one(nvars) == 1

\* The count of True (lines 776-777)
sat_terminal_val(nvars) == shl(1, nvars)

\* The count of a terminal (lines 754-760)
sat_terminal(t, terminal_val) == IF t = T THEN terminal_val ELSE 0

\* The level of the node as the key of the memo
sat_key_level(m, e) == level(m, e)

\* The key of the memo: the id of the node (line 762)
sat_key(m, e) == e

\* The count of a node from those of its children (lines 767-769)
sat_combine(n0, n1) == shr(n0 + n1, 1)

\* sat_count_edge's inner (lines 746-772): the count n and the memo afterwards
RECURSIVE sat_inner(_, _, _, _)
sat_inner(m, e, terminal_val, c) ==
  IF ~IsInner(e) THEN [n |-> sat_terminal(e, terminal_val), cache |-> c]
  ELSE IF sat_key(m, e) \in DOMAIN c.map
  THEN [n |-> c.map[sat_key(m, e)], cache |-> [c EXCEPT !.hits = @ + 1]]
  ELSE
  Bind(sat_inner(m, child(m, e, 0), terminal_val, c), LAMBDA r0 :
  Bind(sat_inner(m, child(m, e, 1), terminal_val, r0.cache), LAMBDA r1 :
  Bind(sat_combine(r0.n, r1.n), LAMBDA n :
  [n |-> n, cache |-> [r1.cache EXCEPT !.map = (sat_key(m, e) :> n) @@ @]])))

\* BooleanFunction::sat_count_edge (lines 740-779)
sat_count_edge(m, edge, nvars, c) ==
  sat_inner(m, edge, sat_terminal_val(nvars), clear_if_invalid(c, nvars))

\* ------------------------------------------------------------ cube picking
\* OptBool: "None" (don't care), "False", "True"
OptBool(c) == IF c THEN "True" ELSE "False"

\* The branch always left to the choice function
pick_branch_choice(m, edge, choice) == choice[level(m, edge)]

\* The branch taken at a node (lines 803-809). A walk meets at most one node
\* of each level, so that a choice function is given by its answer at the
\* node of each level.
pick_branch(m, edge, choice) ==
  IF child(m, edge, 0) = F THEN FALSE
  ELSE IF child(m, edge, 1) = F THEN TRUE
  ELSE choice[level(m, edge)]

\* pick_cube_edge's inner (lines 791-812): the cube after the walk, with the
\* nodes walked and the terminal the walk ended at
RECURSIVE pick_inner(_, _, _, _, _)
pick_inner(m, edge, cube, choice, path) ==
  IF ~IsInner(edge) THEN [cube |-> cube, end |-> edge, path |-> path]
  ELSE
  Bind(pick_branch(m, edge, choice), LAMBDA c :
  pick_inner(m, child(m, edge, IF c THEN 0 ELSE 1),
             [cube EXCEPT ![level(m, edge) + 1] = OptBool(c)], choice,
             path \cup {edge}))

\* The cube in the order of the caller's variables (lines 833-839)
pick_order(m, order, cube) ==
  IF Len(order) = 0 THEN cube
  ELSE [i \in 1..Len(order) |-> cube[level(m, order[i]) + 1]]

\* BooleanFunction::pick_cube_edge (lines 781-840): some is FALSE for no cube
pick_cube_edge(m, edge, order, choice) ==
  IF edge = F THEN [some |-> FALSE, cube |-> <<>>, end |-> F, path |-> {}]
  ELSE IF edge = T
  THEN [some |-> TRUE, cube |-> [i \in 1..m.levels |-> "None"], end |-> T,
        path |-> {}]
  ELSE
  Bind(pick_inner(m, edge, [i \in 1..m.levels |-> "None"], choice, {}),
       LAMBDA w : [some |-> TRUE, cube |-> pick_order(m, order, w.cube),
                   end |-> w.end, path |-> w.path])

\* ------------------------------------------------- shapes of the operands
\* The edge of the variable at a level: the node (level, True, False)
IsVar(m, e) == IsInner(e) /\ child(m, e, 0) = T /\ child(m, e, 1) = F

VarEdge(m, lvl) == CHOOSE e \in Edges(m) : IsVar(m, e) /\ level(m, e) = lvl

\* A cube: a chain of literals ending in True
RECURSIVE IsCube(_, _)
IsCube(m, e) ==
  \/ e = T
  \/ /\ IsInner(e)
     /\ \/ child(m, e, 1) = F /\ IsCube(m, child(m, e, 0))
        \/ child(m, e, 0) = F /\ IsCube(m, child(m, e, 1))

\* A set of variables: a cube of positive literals
RECURSIVE IsVarSet(_, _)
IsVarSet(m, e) ==
  e = T \/ (IsInner(e) /\ child(m, e, 1) = F /\ IsVarSet(m, child(m, e, 0)))

\* The literals of a cube, as a function from its levels to their polarity
RECURSIVE Literals(_, _)
Literals(m, e) ==
  IF ~IsInner(e) THEN <<>>
  ELSE IF child(m, e, 1) = F
  THEN (level(m, e) :> TRUE) @@ Literals(m, child(m, e, 0))
  ELSE (level(m, e) :> FALSE) @@ Literals(m, child(m, e, 1))

\* The diagram below an edge, by its triples: two edges of managers that
\* hold no two nodes with the same triple have the same diagram exactly if
\* they are the same edge. The diagram of a failed call is empty.
RECURSIVE Shape(_, _)
Shape(m, e) ==
  IF e = OOM THEN <<>>
  ELSE IF IsInner(e)
  THEN <<level(m, e), Shape(m, child(m, e, 0)), Shape(m, child(m, e, 1))>>
  ELSE <<e>>

\* f depends on the variable of a level: some assignment's value changes
\* with the variable
DependsOn(m, f, lvl) ==
  \E a \in Assignments(m) :
    eval(m, f, [a EXCEPT ![lvl] = TRUE]) # eval(m, f, [a EXCEPT ![lvl] = FALSE])

\* The levels of the variables of a set
RECURSIVE Levels(_, _)
Levels(m, e) ==
  IF IsInner(e) THEN {level(m, e)} \cup Levels(m, child(m, e, 0)) ELSE {}

\* ------------------------------------------------------------------ state
Mgr == [nodes |-> nodes, cache |-> cache, refs |-> refs, levels |-> numLevels,
        cap |-> NodeCapacity, cacheOn |-> TRUE, ordViol |-> FALSE, direct |-> 0,
        hits |-> 0, made |-> 0, probes |-> 0, depth |-> 0, maxDepth |-> 0,
   descViol |-> FALSE, overrun |-> FALSE]

NoCache == [Mgr EXCEPT !.cacheOn = FALSE]

NoRefs == [e \in 0..(NodeCapacity + 1) |-> 0]

\* new_manager with a capacity, then f_edge and t_edge: the user holds one
\* edge to each terminal.
Init ==
  /\ nodes = <<>>
  /\ cache = <<>>
  /\ refs = [NoRefs EXCEPT ![F] = 1, ![T] = 1]
  /\ numLevels = 0
  /\ held = {F, T}
  /\ calls = 0
  /\ last = [op |-> "idle", args |-> <<>>, res |-> OOM, before |-> NoRefs,
             nocache |-> <<>>, ref |-> OOM, ref2 |-> OOM, direct |-> 0,
             hits |-> 0, size |-> 0, probes |-> 0,
             prep |-> [res |-> <<>>, ok |-> FALSE, panic |-> FALSE],
             maxDepth |-> 0, descViol |-> FALSE, overrun |-> FALSE]
  /\ ordViol = FALSE
  /\ memo = NoMemo
  /\ reduced = 0

HeldInner == {e \in held : IsInner(e)}

\* No replacement vector
NoPrep == [res |-> <<>>, ok |-> FALSE, panic |-> FALSE]

Idle == [op |-> "idle", args |-> <<>>, res |-> OOM, before |-> NoRefs,
         nocache |-> <<>>, ref |-> OOM, ref2 |-> OOM, direct |-> 0, hits |-> 0,
         size |-> 0, probes |-> 0, prep |-> NoPrep, maxDepth |-> 0,
         descViol |-> FALSE, overrun |-> FALSE]

\* The user calls the engine once it has taken the edge of its last call.
Ready == last.op = "idle" /\ calls < MaxCalls

\* One call of the engine on operands the user holds: r is its outcome on
\* Mgr, rn its outcome on the same manager with an always-missing cache, of
\* which the diagram of the returned edge is recorded, Ref and Ref2 reference
\* computations, run on the manager the call leaves. The returned edge is
\* owned by the user, who takes it in the next step.
Call(op, args, outcome, uncached, Ref(_), Ref2(_)) ==
  /\ Ready
  /\ \E r \in {outcome} : \E rn \in {uncached} :
       /\ calls' = calls + 1
       /\ nodes' = r.m.nodes
       /\ cache' = r.m.cache
       /\ refs' = r.m.refs
       /\ ordViol' = (ordViol \/ r.m.ordViol)
       /\ reduced' = reduced + r.m.made
       /\ last' = [op |-> op, args |-> args, res |-> r.res, before |-> refs,
                   nocache |-> Shape(rn.m, rn.res),
                   ref |-> IF r.res = OOM THEN OOM ELSE Ref(r.m),
                   ref2 |-> IF r.res = OOM THEN OOM ELSE Ref2(r.m),
                   direct |-> r.m.direct, hits |-> r.m.hits,
                   size |-> Len(nodes), probes |-> r.m.probes,
                   prep |-> NoPrep, maxDepth |-> r.m.maxDepth,
                   descViol |-> r.m.descViol, overrun |-> r.m.overrun]
  /\ UNCHANGED <<numLevels, held, memo>>

\* The user keeps the returned edge unless the call failed or it already
\* holds an edge to the same node; then it drops the edge.
Keeps(e) == e \notin held

Take ==
  /\ last.op \notin {"idle", "Prepare"}
  /\ last' = Idle
  /\ IF last.res = OOM THEN UNCHANGED <<refs, held>>
     ELSE IF Keeps(last.res) THEN held' = held \cup {last.res} /\ UNCHANGED refs
     ELSE refs' = [refs EXCEPT ![last.res] = @ - 1] /\ UNCHANGED held
  /\ UNCHANGED <<nodes, cache, numLevels, calls, ordViol, memo, reduced>>

\* BooleanFunction::new_var (lines 636-641): add_level stores the node of the
\* variable of a new level, which holds no node yet, so that the lookup of
\* get_or_insert finds none.
new_var(m) ==
  Try(get_or_insert(clone_edge(clone_edge(m, T), F), m.levels, T, F), LAMBDA r :
  Ok([r.m EXCEPT !.levels = @ + 1], r.res))

\* The user creates its variables before its first call, as the test does.
NewVar ==
  /\ numLevels < MaxLevels
  /\ calls = 0
  /\ \E r \in {new_var(Mgr)} :
       /\ nodes' = r.m.nodes
       /\ cache' = r.m.cache
       /\ refs' = r.m.refs
       /\ numLevels' = r.m.levels
       /\ held' = IF r.res = OOM THEN held ELSE held \cup {r.res}
       /\ reduced' = reduced + r.m.made
  /\ UNCHANGED <<calls, last, ordViol, memo>>

\* ------------------------------------------------- reference computations
\* or(and(f, g), and(not(f), h))
RefIte(m, f, g, h) ==
  Try(apply_bin(m, "And", f, g), LAMBDA a :
  Try(apply_not(a.m, f), LAMBDA n :
  Try(apply_bin(n.m, "And", n.res, h), LAMBDA b :
  apply_bin(b.m, "Or", a.res, b.res)))).res

\* The pairs (variable, terminal) of the literals of a cube
RECURSIVE LiteralPairs(_, _)
LiteralPairs(m, e) ==
  IF ~IsInner(e) THEN <<>>
  ELSE IF child(m, e, 1) = F
  THEN <<<<VarEdge(m, level(m, e)), T>>>> \o LiteralPairs(m, child(m, e, 0))
  ELSE <<<<VarEdge(m, level(m, e)), F>>>> \o LiteralPairs(m, child(m, e, 1))

\* The cofactor of f under a cube, by substituting a terminal for each
\* variable of the cube
RefCofactor(m, f, cube, id) ==
  substitute_edge(m, f, LiteralPairs(m, cube), id, TRUE).res

\* Q(restrict(f, x), restrict(f, not(x))) for a variable x
RefQuant(m, Q, f, x) ==
  Try(apply_not(m, x), LAMBDA n :
  Try(restrict(n.m, f, x), LAMBDA p :
  Try(restrict(p.m, f, n.res), LAMBDA q :
  apply_bin(q.m, Q, p.res, q.res)))).res

\* The set of the variables of vs that f depends on, built with And
RECURSIVE PruneVars(_, _, _)
PruneVars(m, f, vs) ==
  IF ~IsInner(vs) THEN get_terminal(m, T)
  ELSE
  Try(PruneVars(m, f, child(m, vs, 0)), LAMBDA r :
  IF DependsOn(m, f, level(m, vs))
  THEN apply_bin(r.m, "And", VarEdge(m, level(m, vs)), r.res)
  ELSE r)

\* The quantification of f over the variables of vs that f depends on
RefPruned(m, Q, f, vs) ==
  Try(PruneVars(m, f, vs), LAMBDA p : quant(p.m, Q, f, p.res)).res

\* f with the function r in the place of the variable v, by Shannon's
\* expansion: ite(r, restrict(f, v), restrict(f, not(v)))
RefCompose(m, f, v, r) ==
  Try(apply_not(m, v), LAMBDA n :
  Try(restrict(n.m, f, v), LAMBDA p :
  Try(restrict(p.m, f, n.res), LAMBDA q :
  apply_ite(q.m, r, p.res, q.res)))).res

\* -------------------------------------------------------------- the calls
NoRef(m) == OOM

Not ==
  /\ Ready
  /\ \E f \in held :
    Call("Not", <<f>>, apply_not(Mgr, f), apply_not(NoCache, f), NoRef, NoRef)

Bin ==
  /\ Ready
  /\ \E OP \in BinOps : \E f \in held : \E g \in held :
    Call(OP, <<f, g>>, apply_bin(Mgr, OP, f, g),
         apply_bin(NoCache, OP, f, g), NoRef, NoRef)

Ite ==
  /\ Ready
  /\ \E f \in held : \E g \in held : \E h \in held :
    Call("Ite", <<f, g, h>>, apply_ite(Mgr, f, g, h),
         apply_ite(NoCache, f, g, h),
         LAMBDA m : RefIte(m, f, g, h), NoRef)

Restrict ==
  /\ Ready
  /\ \E f \in held : \E c \in {e \in held : IsCube(Mgr, e)} :
    Call("Restrict", <<f, c>>, restrict(Mgr, f, c), restrict(NoCache, f, c),
         LAMBDA m : RefCofactor(m, f, c, calls), NoRef)

Quant ==
  /\ Ready
  /\ \E Q \in {"And", "Or", "Xor"} :
     \E f \in held : \E v \in {e \in held : IsVarSet(Mgr, e)} :
    Call(quant_operator(Q), <<f, v>>, quant(Mgr, Q, f, v),
         quant(NoCache, Q, f, v),
         LAMBDA m : IF IsVar(m, v) THEN RefQuant(m, Q, f, v) ELSE OOM,
         LAMBDA m : RefPruned(m, Q, f, v))

\* The substitutions the user builds: one pair (variable, replacement) with
\* any edge as the replacement, or up to MaxPairs pairs with pairwise distinct
\* variables, in any order, with functions as the replacements.
Substitutions ==
  LET vs == {e \in held : IsVar(Mgr, e)}
      one == {<<p>> : p \in vs \X held}
      more == UNION {[1..n -> vs \X HeldInner] : n \in 2..MaxPairs}
  IN  one \cup {s \in more : \A i, j \in 1..Len(s) : s[i][1] = s[j][1] => i = j}

Substitute ==
  /\ Ready
  /\ \E f \in held : \E s \in Substitutions : \E dbg \in BOOLEAN :
    Call("Substitute", <<f, s>>, substitute_edge(Mgr, f, s, calls, dbg),
         substitute_edge(NoCache, f, s, calls, dbg),
         LAMBDA m : IF Len(s) = 1 THEN RefCompose(m, f, s[1][1], s[1][2]) ELSE OOM,
         NoRef)

\* ---------------------------------------------------------- cache eviction
\* Eviction is permitted at any time between calls.
ClearCache ==
  /\ last.op = "idle"
  /\ calls < MaxCalls
  /\ cache # <<>>
  /\ cache' = <<>>
  /\ UNCHANGED <<nodes, refs, numLevels, held, calls, last, ordViol, memo,
                 reduced>>

Evict ==
  /\ last.op = "idle"
  /\ calls < MaxCalls
  /\ \E k \in DOMAIN cache :
       cache' = [x \in DOMAIN cache \ {k} |-> cache[x]]
  /\ UNCHANGED <<nodes, refs, numLevels, held, calls, last, ordViol, memo,
                 reduced>>

Next ==
  \/ NewVar
  \/ Not
  \/ Bin
  \/ Ite
  \/ Restrict
  \/ Quant
  \/ Substitute
  \/ Take
  \/ ClearCache
  \/ Evict

Spec == Init /\ [][Next]_vars

\* ------------------------------------------- preparing a substitution
\* The pairs (variable, replacement) a caller may hand to substitute_prepare:
\* up to MaxPairs pairs, the same variable in two pairs included
AnyPairs ==
  UNION {[1..n -> {e \in held : IsVar(Mgr, e)} \X held] : n \in 0..MaxPairs}

\* One call of substitute_prepare, in a build with or without debug
\* assertions; the caller owns the vector it returns.
Prepare ==
  /\ Ready
  /\ \E s \in AnyPairs : \E dbg \in BOOLEAN :
     \E r \in {substitute_prepare(Mgr, s, dbg)} :
       /\ calls' = calls + 1
       /\ nodes' = r.m.nodes
       /\ cache' = r.m.cache
       /\ refs' = r.m.refs
       /\ reduced' = reduced + r.m.made
       /\ last' = [Idle EXCEPT !.op = "Prepare", !.args = <<s, dbg>>,
                               !.before = refs, !.size = Len(nodes),
                               !.direct = r.m.direct,
                               !.prep = [res |-> r.res, ok |-> r.ok,
                                         panic |-> r.panic]]
  /\ UNCHANGED <<numLevels, held, ordViol, memo>>

\* The caller drops the vector (EdgeVecDropGuard)
Release ==
  /\ last.op = "Prepare"
  /\ refs' = drop_edges(Mgr, last.prep.res).refs
  /\ last' = Idle
  /\ UNCHANGED <<nodes, cache, numLevels, held, calls, ordViol, memo, reduced>>

PrepareNext ==
  \/ NewVar
  \/ Bin
  \/ Take
  \/ Prepare
  \/ Release

SpecPrepare == Init /\ [][PrepareNext]_vars

\* ---------------------------------------------------- the test's manager
\* new_manager(1024, 128, 2) of tests/visualization.rs
TestCapacity == 1024

MaxQueries == 2

NewManager ==
  [nodes |-> <<>>, cache |-> <<>>, refs |-> [e \in 0..(TestCapacity + 1) |-> 0],
   levels |-> 0, cap |-> TestCapacity, cacheOn |-> TRUE, ordViol |-> FALSE,
   direct |-> 0, hits |-> 0, made |-> 0, probes |-> 0, depth |-> 0, maxDepth |-> 0,
   descViol |-> FALSE, overrun |-> FALSE]

\* bdd_visualization (lines 9-25): five variables, g = not(and(x1, x0)),
\* p = xor(x2, x3), f = or(and(x4, g), and(not(x4), p)); the temporaries are
\* dropped at the end of their statements.
TestBuild ==
  Bind(new_var(NewManager), LAMBDA x0 :
  Bind(new_var(x0.m), LAMBDA x1 :
  Bind(new_var(x1.m), LAMBDA x2 :
  Bind(new_var(x2.m), LAMBDA x3 :
  Bind(new_var(x3.m), LAMBDA x4 :
  Bind(apply_bin(x4.m, "And", x1.res, x0.res), LAMBDA a :
  Bind(apply_not(a.m, a.res), LAMBDA g :
  Bind(apply_bin(drop_edge(g.m, a.res), "Xor", x2.res, x3.res), LAMBDA p :
  Bind(apply_bin(p.m, "And", x4.res, g.res), LAMBDA b :
  Bind(apply_not(b.m, x4.res), LAMBDA n :
  Bind(apply_bin(n.m, "And", n.res, p.res), LAMBDA c :
  Bind(apply_bin(c.m, "Or", b.res, c.res), LAMBDA f :
  [m |-> drop_edge(drop_edge(drop_edge(f.m, b.res), n.res), c.res),
   x |-> <<x0.res, x1.res, x2.res, x3.res, x4.res>>,
   g |-> g.res, p |-> p.res, f |-> f.res]))))))))))))

\* The manager of the state with the capacity of the test
TestMgr == [Mgr EXCEPT !.cap = TestCapacity]

\* The state after line 25 of the test, the user having also taken an edge
\* to each terminal (f_edge, t_edge)
TestInit ==
  /\ nodes = TestBuild.m.nodes
  /\ cache = TestBuild.m.cache
  /\ refs = [TestBuild.m.refs EXCEPT ![F] = @ + 1, ![T] = @ + 1]
  /\ numLevels = TestBuild.m.levels
  /\ held = {F, T, TestBuild.g, TestBuild.p, TestBuild.f}
              \cup {TestBuild.x[i] : i \in 1..5}
  /\ calls = 0
  /\ last = Idle
  /\ ordViol = TestBuild.m.ordViol
  /\ memo = NoMemo
  /\ reduced = TestBuild.m.made

\* sat_count_edge on an edge the user holds, for a number of variables, with
\* the user's memo; recorded with it are the count with a fresh memo and the
\* count of not(f), taken with the memo the call leaves.
SatCount ==
  /\ memo.queries < MaxQueries
  /\ \E f \in held : \E V \in 0..(numLevels + 1) :
       \E r \in {sat_count_edge(TestMgr, f, V, memo)} :
       \E nf \in {apply_not(TestMgr, f)} :
         /\ memo' = [r.cache EXCEPT !.queries = @ + 1]
         /\ last' = [op |-> "SatCount", args |-> <<f, V>>, res |-> r.n,
                     fresh |-> sat_count_edge(TestMgr, f, V, NoMemo).n,
                     neg |-> sat_count_edge(nf.m, nf.res, V, r.cache).n,
                     hits |-> r.cache.hits]
  /\ UNCHANGED <<nodes, cache, refs, numLevels, held, calls, ordViol, reduced>>

\* The orders of the variables a caller of pick_cube_edge passes: none, the
\* variables by level, the variables by level in reverse
Orders ==
  {<<>>, [i \in 1..numLevels |-> VarEdge(Mgr, i - 1)],
   [i \in 1..numLevels |-> VarEdge(Mgr, numLevels - i)]}

\* pick_cube_edge on an edge the user holds. It reads neither the memo of
\* the counts nor changes the manager, and is explored with a fresh memo.
PickCube ==
  /\ memo = NoMemo
  /\ \E f \in held : \E choice \in [0..(numLevels - 1) -> BOOLEAN] :
     \E order \in Orders :
       last' = [op |-> "PickCube", args |-> <<f, choice, order>>,
                res |-> pick_cube_edge(TestMgr, f, order, choice)]
  /\ UNCHANGED <<nodes, cache, refs, numLevels, held, calls, ordViol, memo,
                 reduced>>

QueryNext ==
  \/ SatCount
  \/ PickCube

SpecQuery == TestInit /\ [][QueryNext]_vars

\* ------------------------------------------------------------- properties
\* The operands and the result of the call whose edge the user has not taken
Arg(i) == last.args[i]

Returned == last.op # "idle" /\ last.res # OOM

Created == Returned /\ last.res - 1 > last.size

\* C1: unique representation: the node store never holds two inner nodes
\* with the same (level, then, else) triple, also after substitute_prepare
\* has interned the nodes of variables itself.
C1_UniqueRepresentation ==
  \A i, j \in 1..Len(nodes) : nodes[i] = nodes[j] => i = j

\* A substitution whose preparation interned the node of a variable, which
\* the store already held
C1_Witness ==
  /\ last.op = "Substitute"
  /\ last.direct > 0
  /\ IsInner(last.res)
  /\ Len(nodes) > numLevels

\* C2: strict level order: the children of every stored node are terminals
\* or nodes of greater levels, and no call of reduce has been handed a child
\* that is not below the level of the node to create.
C2_StrictLevelOrder ==
  /\ ~ordViol
  /\ \A i \in 1..Len(nodes) :
       Below(Mgr, nodes[i][1], nodes[i][2]) /\ Below(Mgr, nodes[i][1], nodes[i][3])

\* An ite of three distinct functions created a node with an inner child
C2_Witness ==
  /\ last.op = "Ite"
  /\ Created
  /\ IsInner(child(Mgr, last.res, 0)) \/ IsInner(child(Mgr, last.res, 1))

\* C3: cache insensitivity: whatever the apply cache holds, a call returns
\* the edge of the diagram that the engine with an always-missing cache
\* returns for it.
C3_CacheInsensitive ==
  Returned /\ last.nocache # <<>> => Shape(Mgr, last.res) = last.nocache

\* A call that was served in part from the apply cache and created the node
\* it returned
C3_Witness ==
  /\ Created
  /\ last.hits > 0
  /\ Shape(Mgr, last.res) = last.nocache

\* C4: no owned intermediate edge outlives a call: after a call, failed or
\* not, every edge has as many owned handles as before it, but for the one
\* handle of the returned edge.
C4_NoLeak ==
  last.op # "idle" =>
    \A e \in DOMAIN refs :
      refs[e] = last.before[e] + (IF e = last.res THEN 1 ELSE 0)

\* A call failed after it had stored nodes for its sub-results
C4_Witness ==
  /\ last.op # "idle"
  /\ last.res = OOM
  /\ Len(nodes) > last.size

\* C5: ite(f, g, h) is the edge of or(and(f, g), and(not(f), h)).
C5_IteIdentity ==
  last.op = "Ite" /\ Returned /\ last.ref # OOM => last.res = last.ref

\* An ite of three distinct functions, settled by the recursion
C5_Witness ==
  /\ last.op = "Ite"
  /\ IsInner(Arg(1)) /\ IsInner(Arg(2)) /\ IsInner(Arg(3))
  /\ Arg(1) # Arg(2) /\ Arg(1) # Arg(3) /\ Arg(2) # Arg(3)
  /\ Created
  /\ last.res = last.ref

\* C6: evaluation consistency: under every assignment, ite(f, g, h) has the
\* value of g where f is true and that of h where f is false.
C6_EvalIte ==
  last.op = "Ite" /\ Returned =>
    \A a \in Assignments(Mgr) :
      eval(Mgr, last.res, a) =
        IF eval(Mgr, Arg(1), a) THEN eval(Mgr, Arg(2), a) ELSE eval(Mgr, Arg(3), a)

\* ite(x0, x1, x2) is false under x0 = true, x1 = false, x2 = true
C6_Witness ==
  /\ last.op = "Ite"
  /\ Returned
  /\ numLevels = 3
  /\ last.args = <<VarEdge(Mgr, 0), VarEdge(Mgr, 1), VarEdge(Mgr, 2)>>
  /\ ~eval(Mgr, last.res, [l \in 0..2 |-> l # 1])

\* An assignment with the variables of a cube fixed to their polarities
CubeAssign(a, lits) ==
  [l \in DOMAIN a |-> IF l \in DOMAIN lits THEN lits[l] ELSE a[l]]

\* C7: restrict(f, vars) is the cofactor of f under the cube vars: it has the
\* values of f with the variables of the cube fixed, depends on none of
\* them, and is the edge of the cofactor computed by substituting the
\* terminals for the variables.
C7_RestrictCofactor ==
  last.op = "Restrict" /\ Returned =>
    /\ \A a \in Assignments(Mgr) :
         eval(Mgr, last.res, a) =
           eval(Mgr, Arg(1), CubeAssign(a, Literals(Mgr, Arg(2))))
    /\ \A l \in DOMAIN Literals(Mgr, Arg(2)) : ~DependsOn(Mgr, last.res, l)
    /\ last.ref # OOM => last.res = last.ref

\* A function restricted by a cube below its top level, through the
\* recursion, to another function
C7_Witness ==
  /\ last.op = "Restrict"
  /\ IsInner(Arg(1)) /\ IsInner(Arg(2))
  /\ level(Mgr, Arg(2)) > level(Mgr, Arg(1))
  /\ IsInner(last.res)
  /\ last.res # Arg(1)
  /\ last.res = last.ref

\* C8: the quantification of f over a single variable x is the edge of the
\* quantifier's operator applied to restrict(f, x) and restrict(f, not(x)).
C8_QuantSingle ==
  /\ last.op \in {"Forall", "Exist", "Unique"}
  /\ Returned
  /\ IsVar(Mgr, Arg(2))
  /\ last.ref # OOM
  => last.res = last.ref

\* exist over a variable that f depends on, with a function as the result
C8_Witness ==
  /\ last.op = "Exist"
  /\ IsVar(Mgr, Arg(2))
  /\ IsInner(Arg(1))
  /\ DependsOn(Mgr, Arg(1), level(Mgr, Arg(2)))
  /\ IsInner(last.res)
  /\ last.res = last.ref

\* C9: unique over a set with a variable that f does not depend on is False;
\* forall and exist return a terminal f itself and return what they return
\* for the variables of the set that f depends on.
C9_UnusedVariables ==
  /\ /\ last.op = "Unique"
     /\ Returned
     /\ \E l \in Levels(Mgr, Arg(2)) : ~DependsOn(Mgr, Arg(1), l)
     => last.res = F
  /\ last.op \in {"Forall", "Exist"} /\ Returned =>
       /\ IsTerminal(Arg(1)) => last.res = Arg(1)
       /\ last.ref2 # OOM => last.res = last.ref2

\* unique of a function over a set with a variable it depends on and, below
\* it, one it does not depend on
C9_Witness ==
  /\ last.op = "Unique"
  /\ IsInner(Arg(1))
  /\ \E l \in Levels(Mgr, Arg(2)) : DependsOn(Mgr, Arg(1), l)
  /\ \E l \in Levels(Mgr, Arg(2)) :
       ~DependsOn(Mgr, Arg(1), l) /\ l > level(Mgr, Arg(1))
  /\ last.res = F

\* The pairs of a substitution that replace the variable of a level
PairsOf(m, s, l) == {i \in 1..Len(s) : var_level(m, s[i][1]) = l}

\* The assignment that gives every replaced variable the value of its
\* replacement under a
SubstAssign(m, s, a) ==
  [l \in DOMAIN a |->
     IF PairsOf(m, s, l) # {}
     THEN eval(m, s[CHOOSE i \in PairsOf(m, s, l) : TRUE][2], a)
     ELSE a[l]]

\* Two edges of the same function
SameFunction(m, e1, e2) ==
  \A a \in Assignments(m) : eval(m, e1, a) = eval(m, e2, a)

\* C10: substitute is the simultaneous substitution: under every assignment
\* a it has the value of f under the assignment that gives each replaced
\* variable the value of its replacement under a; it is the only edge of
\* the manager with that function, and for a single pair the edge of f
\* composed with the replacement by Shannon's expansion; and it is f when no
\* replaced variable is one f depends on.
C10_Substitute ==
  last.op = "Substitute" /\ Returned =>
    /\ \A a \in Assignments(Mgr) :
         eval(Mgr, last.res, a) = eval(Mgr, Arg(1), SubstAssign(Mgr, Arg(2), a))
    /\ \A e \in Edges(Mgr) : SameFunction(Mgr, e, last.res) => e = last.res
    /\ last.ref # OOM => last.res = last.ref
    /\ (\A i \in 1..Len(Arg(2)) :
          ~DependsOn(Mgr, Arg(1), var_level(Mgr, Arg(2)[i][1])))
       => last.res = Arg(1)

\* Two variables that f depends on, each replaced by a function of the other
C10_Witness ==
  /\ last.op = "Substitute"
  /\ Len(Arg(2)) = 2
  /\ \A i \in 1..2 :
       /\ DependsOn(Mgr, Arg(1), var_level(Mgr, Arg(2)[i][1]))
       /\ DependsOn(Mgr, Arg(2)[i][2], var_level(Mgr, Arg(2)[3 - i][1]))
  /\ IsInner(last.res)
  /\ last.res # Arg(1)

\* The number of nodes on the longest path from an edge to a terminal
RECURSIVE Height(_, _)
Height(m, e) ==
  IF IsInner(e)
  THEN 1 + Max(Height(m, child(m, e, 0)), Height(m, child(m, e, 1)))
  ELSE 0

\* The count the memo or the terminals give for an edge
MemoCount(e) ==
  IF IsInner(e) THEN memo.map[e] ELSE sat_terminal(e, 2^memo.vars)

\* The laws of the count the last call of sat_count_edge returned: that of
\* not(f) is its complement to 2^V, True counts 2^V, False counts 0, and
\* every node of the memo has the sum of the counts of its children, shifted
\* right by one bit.
SatLaws ==
  /\ last.neg = 2^Arg(2) - last.res
  /\ Arg(1) = T => last.res = 2^Arg(2)
  /\ Arg(1) = F => last.res = 0
  /\ \A e \in DOMAIN memo.map :
       /\ IsInner(child(Mgr, e, 0)) => child(Mgr, e, 0) \in DOMAIN memo.map
       /\ IsInner(child(Mgr, e, 1)) => child(Mgr, e, 1) \in DOMAIN memo.map
       /\ memo.map[e] =
            shr(MemoCount(child(Mgr, e, 0)) + MemoCount(child(Mgr, e, 1)), 1)

\* C11: sat_count(not(f), V) = 2^V - sat_count(f, V), sat_count(True, V) =
\* 2^V and sat_count(False, V) = 0, for every edge f and every V that is at
\* least the number of nodes on the longest path of f, the count of a node
\* being the sum of the counts of its children shifted right by one bit.
C11_Complement ==
  last.op = "SatCount" /\ Arg(2) >= Height(Mgr, Arg(1)) => SatLaws

\* The count of a function of three nodes on a path and that of its
\* complement, for the five variables
C11_Witness ==
  /\ last.op = "SatCount"
  /\ Height(Mgr, Arg(1)) >= 3
  /\ Arg(2) = numLevels
  /\ last.res > 0
  /\ last.neg > 0
  /\ last.neg = 2^Arg(2) - last.res

\* C11 as stated, for every edge f and every variable count V
C11_ComplementAnyV == last.op = "SatCount" => SatLaws

\* C12: for V the number of variables of the manager, sat_count(f, V) is the
\* number of the assignments of the variables under which f is true, with a
\* memo filled by earlier calls as with a fresh one.
C12_ModelCount ==
  last.op = "SatCount" /\ Arg(2) = numLevels =>
    /\ last.res = Cardinality({a \in Assignments(Mgr) : eval(Mgr, Arg(1), a)})
    /\ last.res = last.fresh

\* f = or(and(x4, not(and(x0, x1))), and(not(x4), xor(x2, x3))) counts 20 of
\* 32, with a memo that an earlier call on another edge has filled
C12_Witness ==
  /\ last.op = "SatCount"
  /\ Arg(1) = TestBuild.f
  /\ Arg(2) = 5
  /\ last.res = 20
  /\ last.hits > 0
  /\ memo.queries = 2

\* The entry of the returned cube for the variable of a level
CubeValue(l) ==
  IF Len(Arg(3)) = 0 THEN last.res.cube[l + 1]
  ELSE last.res.cube[CHOOSE i \in 1..Len(Arg(3)) : level(Mgr, Arg(3)[i]) = l]

\* An assignment that agrees with the cube where it is not don't care
Agrees(a) ==
  \A l \in 0..(numLevels - 1) :
    CubeValue(l) = "None" \/ CubeValue(l) = OptBool(a[l])

\* C13: pick_cube returns no cube exactly for False; for True the cube of
\* num_levels don't cares; for an inner f and every choice function the walk
\* starts at f, ends at True, gives the variable of a node "False" when the
\* then-child is False and "True" when the else-child is False, gives a
\* value to the variables of the nodes walked and to no other, and f is true
\* under every assignment that agrees with the cube.
C13_PickCube ==
  last.op = "PickCube" =>
    /\ (last.res.some = FALSE) <=> (Arg(1) = F)
    /\ last.res.some => Len(last.res.cube) = numLevels
    /\ Arg(1) = T => \A l \in 0..(numLevels - 1) : CubeValue(l) = "None"
    /\ IsInner(Arg(1)) =>
         /\ Arg(1) \in last.res.path
         /\ last.res.end = T
         /\ \A e \in last.res.path :
              /\ child(Mgr, e, 0) = F => CubeValue(level(Mgr, e)) = "False"
              /\ child(Mgr, e, 1) = F => CubeValue(level(Mgr, e)) = "True"
         /\ \A l \in 0..(numLevels - 1) :
              (CubeValue(l) # "None") <=>
                (\E e \in last.res.path : level(Mgr, e) = l)
         /\ \A a \in Assignments(Mgr) : Agrees(a) => eval(Mgr, Arg(1), a)

\* A walk with a forced variable and a chosen one that leaves a variable
\* don't care, returned in the reverse order of the variables
C13_Witness ==
  /\ last.op = "PickCube"
  /\ IsInner(Arg(1))
  /\ Len(Arg(3)) = numLevels
  /\ Arg(3)[1] = VarEdge(Mgr, numLevels - 1)
  /\ \E e \in last.res.path : child(Mgr, e, 0) = F
  /\ \E e \in last.res.path : child(Mgr, e, 0) # F /\ child(Mgr, e, 1) # F
  /\ \E l \in 0..(numLevels - 1) : CubeValue(l) = "None"
  /\ \A a \in Assignments(Mgr) : Agrees(a) => eval(Mgr, Arg(1), a)

C15_SaltedEntries ==
  [][last.op = "idle" /\ last'.op = "Substitute" =>
       /\ last'.res # OOM /\ last'.nocache # <<>> =>
            Shape(Mgr', last'.res) = last'.nocache
       /\ \A k \in DOMAIN cache' :
            k[1] = "Substitute" =>
              IF k[3] = <<calls>>
              THEN \A a \in Assignments(Mgr') :
                     eval(Mgr', cache'[k], a) =
                       eval(Mgr', k[2][1], SubstAssign(Mgr', last'.args[2], a))
              ELSE k \in DOMAIN cache /\ cache'[k] = cache[k]]_vars

\* The cache holds two entries for the operand of the last substitution,
\* under the ids of two substitutions, with different edges
C15_Witness ==
  /\ last.op = "Substitute"
  /\ Returned
  /\ \E k1, k2 \in DOMAIN cache :
       /\ k1[1] = "Substitute" /\ k2[1] = "Substitute"
       /\ k1[2] = <<Arg(1)>> /\ k2[2] = <<Arg(1)>>
       /\ k1[3] = <<calls - 1>> /\ k2[3] # k1[3]
       /\ cache[k1] = last.res
       /\ cache[k2] # last.res

\* restrict settles f and vars by direct cofactor selection
SelectsDirectly(m, f, vs) ==
  ~IsInner(f) \/ ~IsInner(vs) \/ restrict_inner(m, f, vs).kind = "Done"

\* The nodes below an edge, the edge included
RECURSIVE Below_(_, _)
Below_(m, e) ==
  IF IsInner(e)
  THEN {e} \cup Below_(m, child(m, e, 0)) \cup Below_(m, child(m, e, 1))
  ELSE {}

\* C16: a call of restrict that restrict_inner settles by direct cofactor
\* selection stores no node, probes the apply cache not once and leaves it
\* as it was; a call that probes the cache is one that restrict_inner leaves
\* to the recursion; and restrict installs entries under keys (Restrict, f',
\* vars') only, f' a node of f whose level lies strictly above the level of
\* vars', a remainder of the cube.
C16_RestrictFrame ==
  [][last.op = "idle" /\ last'.op = "Restrict" =>
       /\ SelectsDirectly(Mgr, last'.args[1], last'.args[2]) =>
            nodes' = nodes /\ cache' = cache /\ last'.probes = 0
       /\ last'.probes > 0 =>
            ~SelectsDirectly(Mgr, last'.args[1], last'.args[2])
       /\ \A k \in DOMAIN cache' :
            k \notin DOMAIN cache \/ cache'[k] # cache[k] =>
              /\ k[1] = "Restrict" /\ k[3] = <<>>
              /\ k[2][1] \in Below_(Mgr, last'.args[1])
              /\ k[2][2] \in Below_(Mgr, last'.args[2])
              /\ level(Mgr, k[2][1]) < level(Mgr, k[2][2])]_vars

\* A restriction by a cube that starts above f and has the variable of f's
\* top level: the walk passes the first literal and selects a child of f
C16_Witness ==
  /\ last.op = "Restrict"
  /\ IsInner(Arg(1)) /\ IsInner(Arg(2))
  /\ level(Mgr, Arg(2)) < level(Mgr, Arg(1))
  /\ level(Mgr, Arg(1)) \in DOMAIN Literals(Mgr, Arg(2))
  /\ SelectsDirectly(Mgr, Arg(1), Arg(2))
  /\ last.res # Arg(1)
  /\ last.probes = 0
  /\ Len(nodes) = last.size

\* The levels of the variables of a substitution
DomainLevels(s) == {var_level(Mgr, s[i][1]) : i \in DOMAIN s}

\* The same variable occurs in two pairs
Duplicate(s) ==
  \E i, j \in DOMAIN s : i # j /\ var_level(Mgr, s[i][1]) = var_level(Mgr, s[j][1])

\* The length L_max + 1 of the replacement array
ArrayLen(s) ==
  IF s = <<>> THEN 0 ELSE (CHOOSE l \in DomainLevels(s) :
                             \A k \in DomainLevels(s) : k <= l) + 1

\* For pairwise distinct variables the vector holds the replacement at each
\* level of the domain and the node (level, T, F) at every other level
PreparedWell ==
  last.prep.ok =>
    /\ ~last.prep.panic
    /\ Len(last.prep.res) = ArrayLen(Arg(1))
    /\ \A i \in DOMAIN Arg(1) :
         last.prep.res[var_level(Mgr, Arg(1)[i][1]) + 1] = Arg(1)[i][2]
    /\ \A l \in 0..(ArrayLen(Arg(1)) - 1) :
         l \notin DomainLevels(Arg(1)) =>
           /\ IsInner(last.prep.res[l + 1])
           /\ nodes[last.prep.res[l + 1] - 1] = <<l, T, F>>

\* C17: substitute_prepare fails with an assertion failure when the same
\* variable occurs in two pairs, and returns no array then; for pairwise
\* distinct variables it returns the array of length L_max + 1 with the
\* replacement at each level of the domain and the variable's node elsewhere.
C17_PrepareLoud ==
  last.op = "Prepare" =>
    IF Duplicate(Arg(1)) THEN last.prep.panic /\ ~last.prep.ok
    ELSE PreparedWell

\* What the code does keep: the assertion fails in a build with debug
\* assertions, and pairwise distinct variables are prepared well
C17_DebugLoud ==
  last.op = "Prepare" =>
    IF Duplicate(Arg(1)) THEN Arg(2) => last.prep.panic /\ ~last.prep.ok
    ELSE PreparedWell

\* A build without debug assertions returns an array for a substitution with
\* the same variable in two pairs with different replacements: it holds the
\* later one
C17_Overridden ==
  /\ last.op = "Prepare"
  /\ ~Arg(2)
  /\ Len(Arg(1)) = 2
  /\ Arg(1)[1][1] = Arg(1)[2][1]
  /\ Arg(1)[1][2] # Arg(1)[2][2]
  /\ last.prep.ok
  /\ last.prep.res[var_level(Mgr, Arg(1)[1][1]) + 1] = Arg(1)[2][2]

\* C18: every call of not, a binary operator, ite, restrict, a quantifier or
\* substitute returns an edge of the manager or OutOfMemory; whenever one of
\* the recursive functions has called itself, every inner operand of the
\* call lay strictly below the caller's pivot level; every tail call of
\* restrict_inner went on with a cube of a strictly lower top level and an f
\* that is not higher; and no chain of open calls was longer than
\* ChainBound(number of levels).
C18_Terminates ==
  last.op \notin {"idle", "Prepare"} =>
    /\ last.res = OOM \/ last.res \in Edges(Mgr)
    /\ ~last.descViol
    /\ ~last.overrun
    /\ last.maxDepth + 1 <= ChainBound(numLevels)

\* A substitution whose chain of open calls is longer than any chain of
\* self-recursion alone, and which has returned an edge
C18_Witness ==
  /\ last.op = "Substitute"
  /\ Returned
  /\ IsInner(last.res)
  /\ numLevels >= 2
  /\ last.maxDepth + 1 > numLevels + 1

====
